---- MODULE Spec2Model ----
(***************************************************************************)
(* Model of http-fancy's body module (src/src/body.rs): the Collector      *)
(* trait with its two implementations (Vec<u8> and DecompressCollector)    *)
(* and the Collect future that pumps an HttpBody into a Collector under    *)
(* the size limit S.                                                       *)
(*                                                                         *)
(* Bytes are naturals in 0..255, byte buffers are sequences of bytes.      *)
(* The zstd crate is an external dependency: it is modelled by a small     *)
(* framed run-length format that keeps what body.rs relies on: a frame     *)
(* starts with the 4-byte magic number, decoding is incremental, corrupt   *)
(* input is reported as an error, and decoded bytes reach the inner Vec    *)
(* only when the next write or a flush pushes them out.                    *)
(***************************************************************************)
EXTENDS Naturals, Sequences, FiniteSets

\* ------------------------------------------------------------------ bounds
MaxPayload == 2      \* longest payload that is compressed
MaxTail == 2         \* longest tail after a partial magic prefix
MaxChunk == 3        \* longest data frame the source yields
MaxLimit == 5        \* largest size limit S
MaxPrefill == 1      \* longest initial content of a Vec<u8> collector
MaxEmpty == 1        \* zero-length data frames per run
MaxTrailers == 2     \* trailer frames per run
MaxPending == 1      \* not-ready results per run
MaxConsume == 2      \* direct consume calls per run
UsizeBits == 5       \* width of usize in the model
MaxRun == 3          \* longest run one token of the stand-in format encodes
MaxRepoll == 1       \* calls of poll after it has returned Ready

\* --------------------------------------------------------------- helpers
None == "None"

Min(a, b) == IF a < b THEN a ELSE b

SeqsUpTo(A, n) == UNION {[1..k -> A] : k \in 0..n}

Drop(s, n) == SubSeq(s, n + 1, Len(s))

Take(s, n) == SubSeq(s, 1, n)

\* slice::starts_with
StartsWith(s, p) == Len(s) >= Len(p) /\ Take(s, Len(p)) = p

\* n copies of byte b
Repeat(n, b) == [i \in 1..n |-> b]

\* ---------------------------------------------------------- usize arithmetic
UsizeMax == 2 ^ UsizeBits - 1

\* sum that wraps around at the word size
SaturatingAddWraps(a, b) == (a + b) % (2 ^ UsizeBits)

\* sum that leaves the frame's length out
SaturatingAddForgetsFrame(a, b) == a

\* usize::saturating_add
SaturatingAdd(a, b) == IF a + b > UsizeMax THEN UsizeMax ELSE a + b

\* checked_sub that also refuses a difference of zero
CheckedSubOffByOne(a, b) == IF a <= b THEN <<>> ELSE <<a - b>>

\* usize::checked_sub: <<>> is None, <<d>> is Some(d)
CheckedSub(a, b) == IF a < b THEN <<>> ELSE <<a - b>>

\* ------------------------------------------------------- the zstd stand-in
\* DecompressCollector::ZSTD_HEADER = 0xFD2FB528u32.to_le_bytes()
ZSTD_HEADER == <<40, 181, 47, 253>>

\* length of the run of s[1] at the head of s, at most MaxRun
RECURSIVE RunLen(_)
RunLen(s) ==
    IF Len(s) < 2 \/ s[2] # s[1] THEN 1
    ELSE Min(MaxRun, 1 + RunLen(Drop(s, 1)))

\* tokens <<count, byte>> of a payload
RECURSIVE Encode(_)
Encode(p) ==
    IF p = <<>> THEN <<>>
    ELSE LET n == RunLen(p) IN <<n, p[1]>> \o Encode(Drop(p, n))

\* zstd::bulk::compress: magic number, then the encoded payload
Compress(p) == ZSTD_HEADER \o Encode(p)

\* decode the complete tokens at the head of inp; rest is what is held back
RECURSIVE DecodeTokens(_)
DecodeTokens(inp) ==
    IF inp = <<>> THEN [ok |-> TRUE, out |-> <<>>, rest |-> <<>>]
    ELSE IF inp[1] \notin 1..MaxRun THEN [ok |-> FALSE, out |-> <<>>, rest |-> inp]
    ELSE IF Len(inp) = 1 THEN [ok |-> TRUE, out |-> <<>>, rest |-> inp]
    ELSE LET r == DecodeTokens(Drop(inp, 2))
         IN  [ok |-> r.ok, out |-> Repeat(inp[1], inp[2]) \o r.out, rest |-> r.rest]

\* zstd::stream::write::Decoder::new(Vec::new())
\*   held: input not decoded yet, hdr: magic number seen,
\*   buf: decoded bytes not yet written to the inner Vec, out: the inner Vec,
\*   fed: every byte written to the decoder, bad: a write has failed
DecoderNew ==
    [held |-> <<>>, hdr |-> FALSE, buf |-> <<>>, out |-> <<>>,
     fed |-> <<>>, bad |-> FALSE]

\* Decoder::write_all(data): [ok, dec]
DecoderWriteAll(dec, data) ==
    IF data = <<>> THEN [ok |-> TRUE, dec |-> dec]
    ELSE
    LET inp == dec.held \o data
        flushed == dec.out \o dec.buf
        fed == dec.fed \o data
        needHdr == ~dec.hdr
        hdrShort == needHdr /\ Len(inp) < Len(ZSTD_HEADER)
        hdrBad == needHdr /\ ~hdrShort /\ ~StartsWith(inp, ZSTD_HEADER)
        body == IF needHdr THEN Drop(inp, Len(ZSTD_HEADER)) ELSE inp
        r == DecodeTokens(body)
    IN  IF dec.bad \/ hdrBad
          THEN [ok |-> FALSE,
                dec |-> [dec EXCEPT !.out = flushed, !.buf = <<>>,
                                    !.fed = fed, !.bad = TRUE]]
        ELSE IF hdrShort
          THEN [ok |-> TRUE,
                dec |-> [dec EXCEPT !.held = inp, !.out = flushed,
                                    !.buf = <<>>, !.fed = fed]]
        ELSE [ok |-> r.ok,
              dec |-> [held |-> r.rest, hdr |-> TRUE, buf |-> r.out,
                       out |-> flushed, fed |-> fed, bad |-> ~r.ok]]

\* Decoder::get_ref().len()
DecoderGetRefLen(dec) == Len(dec.out)

\* Decoder::flush() followed by Decoder::into_inner()
DecoderIntoInner(dec) == dec.out \o dec.buf

\* ------------------------------------------------- impl Collector for Vec<u8>
VecCollector(v) == [kind |-> "Vec", buffer |-> v]

\* append that puts the chunk in front of the buffer
VecAppendFront(c, data) ==
    [c |-> [c EXCEPT !.buffer = data \o c.buffer], err |-> None]

\* Vec<u8>::append: extend_from_slice, never an error
VecAppend(c, data) ==
    [c |-> [c EXCEPT !.buffer = c.buffer \o data], err |-> None]

\* Vec<u8>::len
VecLen(c) == Len(c.buffer)

\* Vec<u8>::on_trailers: empty body
VecOnTrailers(c, headers) == c

\* consume that returns a copy and keeps the buffer
VecConsumeKeeps(c) ==
    [c |-> c, ok |-> TRUE, out |-> c.buffer, err |-> None]

\* Vec<u8>::consume: swap an empty Vec in, return the old one
VecConsume(c) ==
    [c |-> [c EXCEPT !.buffer = <<>>], ok |-> TRUE, out |-> c.buffer, err |-> None]

\* ------------------------------------------------------ DecompressCollector
\* DecompressError::Zstd(io::Error), by the call that reported it
ErrWrite == "Zstd(write_all)"

ErrFlush == "Zstd(flush)"

\* DecompressState::Uninit(buffer)
Uninit(buffer) ==
    [kind |-> "Decompress", state |-> "Uninit", buffer |-> buffer,
     decoder |-> DecoderNew]

\* DecompressState::Plain(buffer)
Plain(buffer) ==
    [kind |-> "Decompress", state |-> "Plain", buffer |-> buffer,
     decoder |-> DecoderNew]

\* DecompressState::Zstd(decoder)
Zstd(decoder) ==
    [kind |-> "Decompress", state |-> "Zstd", buffer |-> <<>>,
     decoder |-> decoder]

\* DecompressCollector::new
DecompressNew == Uninit(<<>>)

\* append that writes only the latest chunk to the new decoder
DecompressAppendFeedsChunkOnly(c, data) ==
    IF c.state = "Uninit" THEN
        LET buffer == c.buffer \o data
            w == DecoderWriteAll(DecoderNew, data)
        IN  IF Len(buffer) < Len(ZSTD_HEADER)
              THEN [c |-> Uninit(buffer), err |-> None]
            ELSE IF StartsWith(buffer, ZSTD_HEADER)
              THEN IF w.ok THEN [c |-> Zstd(w.dec), err |-> None]
                   ELSE [c |-> Uninit(buffer), err |-> ErrWrite]
            ELSE [c |-> Plain(buffer), err |-> None]
    ELSE IF c.state = "Plain" THEN
        [c |-> Plain(c.buffer \o data), err |-> None]
    ELSE
        LET w == DecoderWriteAll(c.decoder, data)
        IN  [c |-> Zstd(w.dec), err |-> IF w.ok THEN None ELSE ErrWrite]

\* append that moves only the latest chunk into Plain
DecompressAppendPlainDropsPrefix(c, data) ==
    IF c.state = "Uninit" THEN
        LET buffer == c.buffer \o data
            w == DecoderWriteAll(DecoderNew, buffer)
        IN  IF Len(buffer) < Len(ZSTD_HEADER)
              THEN [c |-> Uninit(buffer), err |-> None]
            ELSE IF StartsWith(buffer, ZSTD_HEADER)
              THEN IF w.ok THEN [c |-> Zstd(w.dec), err |-> None]
                   ELSE [c |-> Uninit(buffer), err |-> ErrWrite]
            ELSE [c |-> Plain(data), err |-> None]
    ELSE IF c.state = "Plain" THEN
        [c |-> Plain(c.buffer \o data), err |-> None]
    ELSE
        LET w == DecoderWriteAll(c.decoder, data)
        IN  [c |-> Zstd(w.dec), err |-> IF w.ok THEN None ELSE ErrWrite]

\* DecompressCollector::append
DecompressAppend(c, data) ==
    IF c.state = "Uninit" THEN
        LET buffer == c.buffer \o data
            w == DecoderWriteAll(DecoderNew, buffer)
        IN  IF Len(buffer) < Len(ZSTD_HEADER)
              THEN [c |-> Uninit(buffer), err |-> None]
            ELSE IF StartsWith(buffer, ZSTD_HEADER)
              THEN IF w.ok THEN [c |-> Zstd(w.dec), err |-> None]
                   ELSE [c |-> Uninit(buffer), err |-> ErrWrite]
            ELSE [c |-> Plain(buffer), err |-> None]
    ELSE IF c.state = "Plain" THEN
        [c |-> Plain(c.buffer \o data), err |-> None]
    ELSE
        LET w == DecoderWriteAll(c.decoder, data)
        IN  [c |-> Zstd(w.dec), err |-> IF w.ok THEN None ELSE ErrWrite]

\* DecompressCollector::len
DecompressLen(c) ==
    IF c.state = "Zstd" THEN DecoderGetRefLen(c.decoder) ELSE Len(c.buffer)

\* DecompressCollector::on_trailers: empty body
DecompressOnTrailers(c, headers) == c

\* outcomes of Decoder::flush: it succeeds unless an earlier write failed,
\* after which the decoder's behaviour is not specified
FlushOutcomes(c) ==
    IF c.kind = "Decompress" /\ c.state = "Zstd" /\ c.decoder.bad
    THEN BOOLEAN ELSE {TRUE}

\* DecompressCollector::consume
DecompressConsume(c, flushOk) ==
    IF c.state = "Zstd" THEN
        IF flushOk
        THEN [c |-> DecompressNew, ok |-> TRUE,
              out |-> DecoderIntoInner(c.decoder), err |-> None]
        ELSE [c |-> DecompressNew, ok |-> FALSE, out |-> <<>>, err |-> ErrFlush]
    ELSE [c |-> DecompressNew, ok |-> TRUE, out |-> c.buffer, err |-> None]

\* --------------------------------------------------- trait Collector dispatch
\* Collector::append
CollectorAppend(c, data) ==
    IF c.kind = "Vec" THEN VecAppend(c, data) ELSE DecompressAppend(c, data)

\* Collector::len
CollectorLen(c) ==
    IF c.kind = "Vec" THEN VecLen(c) ELSE DecompressLen(c)

\* Collector::on_trailers
CollectorOnTrailers(c, headers) ==
    IF c.kind = "Vec" THEN VecOnTrailers(c, headers)
    ELSE DecompressOnTrailers(c, headers)

\* Collector::consume
CollectorConsume(c, flushOk) ==
    IF c.kind = "Vec" THEN VecConsume(c) ELSE DecompressConsume(c, flushOk)

\* ------------------------------------------------------------ CollectError
\* Poll::Ready(Ok(out))
Ok(out) == [kind |-> "Ok", out |-> out, err |-> None]

\* CollectError::Transport(error)
Transport(error) == [kind |-> "Transport", out |-> <<>>, err |-> error]

\* CollectError::Collector(error), built by unlikely_collector
UnlikelyCollector(error) == [kind |-> "Collector", out |-> <<>>, err |-> error]

\* CollectError::Overflow
Overflow == [kind |-> "Overflow", out |-> <<>>, err |-> None]

\* the loop goes on: nothing is returned yet
Continue == [kind |-> "None", out |-> <<>>, err |-> None]

\* ----------------------------------------------------------- Collect::poll
\* data arm that appends first and compares the new length with the limit
PollDataAppendFirst(limit, c, data) ==
    LET a == CollectorAppend(c, data)
    IN  IF Len(data) = 0
        THEN [c |-> c, ret |-> Continue, called |-> FALSE, err |-> None]
        ELSE IF a.err # None
        THEN [c |-> a.c, ret |-> UnlikelyCollector(a.err), called |-> TRUE,
              err |-> a.err]
        ELSE IF CheckedSub(limit, CollectorLen(a.c)) = <<>>
        THEN [c |-> a.c, ret |-> Overflow, called |-> TRUE, err |-> None]
        ELSE [c |-> a.c, ret |-> Continue, called |-> TRUE, err |-> None]

\* data arm that goes on with the loop when append reports an error
PollDataSwallowsError(limit, c, data) ==
    IF CheckedSub(limit, SaturatingAdd(CollectorLen(c), Len(data))) = <<>>
    THEN [c |-> c, ret |-> Overflow, called |-> FALSE, err |-> None]
    ELSE IF Len(data) = 0
    THEN [c |-> c, ret |-> Continue, called |-> FALSE, err |-> None]
    ELSE LET a == CollectorAppend(c, data)
         IN  [c |-> a.c, ret |-> Continue, called |-> TRUE, err |-> a.err]

\* the arm for a data frame: ret is what poll returns (Continue: loop on),
\* called says whether append was called, err is what append reported
PollData(limit, c, data) ==
    IF CheckedSub(limit, SaturatingAdd(CollectorLen(c), Len(data))) = <<>>
    THEN [c |-> c, ret |-> Overflow, called |-> FALSE, err |-> None]
    ELSE IF Len(data) = 0
    THEN [c |-> c, ret |-> Continue, called |-> FALSE, err |-> None]
    ELSE LET a == CollectorAppend(c, data)
         IN  [c |-> a.c,
              ret |-> IF a.err # None THEN UnlikelyCollector(a.err) ELSE Continue,
              called |-> TRUE, err |-> a.err]

\* trailers arm that drops the frame without calling the hook
PollTrailersNoHook(c, headers) ==
    [c |-> c, ret |-> Continue, called |-> FALSE]

\* the arm for a trailers frame
PollTrailers(c, headers) ==
    [c |-> CollectorOnTrailers(c, headers), ret |-> Continue, called |-> TRUE]

\* the arm for Ready(Some(Err(error)))
PollError(c, error) ==
    [c |-> c, ret |-> Transport(error), called |-> FALSE]

\* exhaustion arm that completes without calling consume
PollNoneNoConsume(c, flushOk) ==
    [c |-> c, ret |-> Ok(<<>>), called |-> FALSE, err |-> None]

\* the arm for Ready(None)
PollNone(c, flushOk) ==
    LET r == CollectorConsume(c, flushOk)
    IN  [c |-> r.c,
         ret |-> IF r.ok THEN Ok(r.out) ELSE UnlikelyCollector(r.err),
         called |-> TRUE, err |-> r.err]

\* Pending arm that goes round the loop instead of returning Pending
PollPendingBusy(c) == [c |-> c, ret |-> Continue, suspend |-> FALSE]

\* Pending arm that hands out what has been collected so far
PollPendingPartial(c) ==
    [c |-> c, ret |-> Ok(CollectorConsume(c, TRUE).out), suspend |-> TRUE]

\* the arm for Poll::Pending
PollPending(c) == [c |-> c, ret |-> Continue, suspend |-> TRUE]

\* ------------------------------------------------------------------ inputs
PayloadByte == {1, 2}

Payloads == SeqsUpTo(PayloadByte, MaxPayload)

\* compressed bodies
CompressedWires == {Compress(p) : p \in Payloads}

\* bodies that do not start with the magic number: a proper prefix of it,
\* followed by other bytes
PlainWires ==
    {Take(ZSTD_HEADER, k) \o t :
        k \in 0..(Len(ZSTD_HEADER) - 1), t \in SeqsUpTo(PayloadByte, MaxTail)}

\* the magic number followed by a token the decoder rejects
CorruptWires == {ZSTD_HEADER \o <<0>>, ZSTD_HEADER \o <<1, 1, 0>>}

\* a compressed body whose payload is longer than its encoding
ExpandingWires == {Compress(Repeat(2 * MaxRun, 1) \o <<2>>)}

Wires == CompressedWires \cup PlainWires \cup CorruptWires \cup ExpandingWires

\* a DecompressCollector whose decoder has reported an error to its owner
Poisoned ==
    DecompressAppend(DecompressAppend(DecompressNew, ZSTD_HEADER).c, <<0>>).c

\* collectors handed to Collect::new
InitialCollectors ==
    {VecCollector(v) : v \in SeqsUpTo({7}, MaxPrefill)}
        \cup {DecompressNew, Poisoned}

\* the body's error values
TransportErrors == {"e1", "e2"}

\* trailer maps
HeaderMaps == {"h1", "h2"}

\* ------------------------------------------------------------------- state
VARIABLES
    S,            \* Collect's const generic S: the size limit
    body,         \* the bytes the body has not yielded yet
    collector,    \* Collect::collector
    status,       \* "created", "polling" (inside poll), "suspended", "done";
                  \* "direct" when the collector is used without Collect
    result,       \* what poll returned with Poll::Ready (Continue: nothing yet)
    sink0,        \* the collector Collect::new was given
    seen,         \* concatenation of the data frames the body has yielded
    appended,     \* concatenation of the chunks passed to append
    trailersSeen, \* the trailer maps the body has yielded, in order
    hooked,       \* the trailer maps passed to on_trailers, in order
    nConsume,     \* calls of consume
    nEmpty,       \* zero-length data frames yielded
    nPending,     \* Poll::Pending results
    exhausted,    \* the body has returned Ready(None)
    fault,        \* the first error the body or the collector reported
    directAppends,\* calls of append made by the collector's owner, not by poll
    nRepoll,      \* calls of Future::poll after poll has returned Ready
    word          \* operands and outcome of the limit check taken alone

vars ==
    <<S, body, collector, status, result, sink0, seen, appended, trailersSeen,
      hooked, nConsume, nEmpty, nPending, exhausted, fault, directAppends,
      nRepoll, word>>

\* the variables Collect::poll and the collectors' owner leave alone
aux == <<nRepoll, word>>

NoWord == [n |-> 0, m |-> 0, out |-> None]

NoFault == [by |-> None, err |-> None]

\* Collect::new(body, collector)
Init ==
    /\ S \in 0..MaxLimit
    /\ body \in Wires
    /\ collector \in InitialCollectors
    /\ sink0 = collector
    /\ status = "created"
    /\ result = Continue
    /\ seen = <<>>
    /\ appended = <<>>
    /\ trailersSeen = <<>>
    /\ hooked = <<>>
    /\ nConsume = 0
    /\ nEmpty = 0
    /\ nPending = 0
    /\ exhausted = FALSE
    /\ fault = NoFault
    /\ directAppends = 0
    /\ nRepoll = 0
    /\ word = NoWord

\* loop that goes on after an Overflow instead of breaking
ReturnKeepsLooping(ret) ==
    /\ result' = ret
    /\ status' = IF ret.kind \in {"None", "Overflow"} THEN "polling" ELSE "done"

\* what a loop iteration does with the value its match arm produced
Return(ret) ==
    /\ result' = ret
    /\ status' = IF ret.kind = "None" THEN "polling" ELSE "done"

\* the executor calls Future::poll
Poll ==
    /\ status \in {"created", "suspended"}
    /\ status' = "polling"
    /\ UNCHANGED <<S, body, collector, result, sink0, seen, appended,
                   trailersSeen, hooked, nConsume, nEmpty, nPending,
                   exhausted, fault, directAppends>>
    /\ UNCHANGED aux

\* poll_frame returns Ready(Some(Ok(frame))), frame.into_data() is Ok(data)
FrameData ==
    /\ status = "polling"
    /\ \E n \in 0..Min(MaxChunk, Len(body)) :
        LET data == Take(body, n)
            r == PollData(S, collector, data)
        IN  /\ n = 0 => nEmpty < MaxEmpty
            /\ body' = Drop(body, n)
            /\ seen' = seen \o data
            /\ nEmpty' = IF n = 0 THEN nEmpty + 1 ELSE nEmpty
            /\ collector' = r.c
            /\ appended' = IF r.called THEN appended \o data ELSE appended
            /\ fault' = IF r.err # None THEN [by |-> "append", err |-> r.err]
                        ELSE fault
            /\ Return(r.ret)
    /\ UNCHANGED <<S, sink0, trailersSeen, hooked, nConsume, nPending, exhausted,
                   directAppends>>
    /\ UNCHANGED aux

\* poll_frame returns Ready(Some(Ok(frame))), frame.into_trailers() is Ok
FrameTrailers ==
    /\ status = "polling"
    /\ Len(trailersSeen) < MaxTrailers
    /\ \E headers \in HeaderMaps :
        LET r == PollTrailers(collector, headers)
        IN  /\ trailersSeen' = Append(trailersSeen, headers)
            /\ collector' = r.c
            /\ hooked' = IF r.called THEN Append(hooked, headers) ELSE hooked
            /\ Return(r.ret)
    /\ UNCHANGED <<S, body, sink0, seen, appended, nConsume, nEmpty, nPending,
                   exhausted, fault, directAppends>>
    /\ UNCHANGED aux

\* poll_frame returns Ready(Some(Err(error)))
FrameError ==
    /\ status = "polling"
    /\ \E error \in TransportErrors :
        LET r == PollError(collector, error)
        IN  /\ fault' = [by |-> "body", err |-> error]
            /\ collector' = r.c
            /\ Return(r.ret)
    /\ UNCHANGED <<S, body, sink0, seen, appended, trailersSeen, hooked,
                   nConsume, nEmpty, nPending, exhausted, directAppends>>
    /\ UNCHANGED aux

\* poll_frame returns Ready(None)
FrameNone ==
    /\ status = "polling"
    /\ \E flushOk \in FlushOutcomes(collector) :
        LET r == PollNone(collector, flushOk)
        IN  /\ collector' = r.c
            /\ nConsume' = IF r.called THEN nConsume + 1 ELSE nConsume
            /\ fault' = IF r.err # None THEN [by |-> "consume", err |-> r.err]
                        ELSE fault
            /\ Return(r.ret)
    /\ exhausted' = TRUE
    /\ UNCHANGED <<S, body, sink0, seen, appended, trailersSeen, hooked,
                   nEmpty, nPending, directAppends>>
    /\ UNCHANGED aux

\* poll_frame returns Pending
FramePending ==
    /\ status = "polling"
    /\ nPending < MaxPending
    /\ LET r == PollPending(collector)
       IN  /\ collector' = r.c
           /\ result' = r.ret
           /\ status' = IF r.suspend THEN "suspended" ELSE "polling"
    /\ nPending' = nPending + 1
    /\ UNCHANGED <<S, body, sink0, seen, appended, trailersSeen, hooked,
                   nConsume, nEmpty, exhausted, fault, directAppends>>
    /\ UNCHANGED aux

Next ==
    \/ Poll
    \/ FrameData
    \/ FrameTrailers
    \/ FrameError
    \/ FrameNone
    \/ FramePending

Spec == Init /\ [][Next]_vars

\* the loop body: poll_frame returns and its match arm runs
Frame ==
    \/ FrameData
    \/ FrameTrailers
    \/ FrameError
    \/ FrameNone
    \/ FramePending

\* bodies and collectors of the runs checked for completion
LiveWires ==
    {Compress(<<1, 2>>), Take(ZSTD_HEADER, 3) \o <<1, 2>>} \cup CorruptWires

LiveInit ==
    /\ Init
    /\ body \in LiveWires
    /\ collector \in {VecCollector(<<>>), DecompressNew, Poisoned}

\* the executor polls again after every Pending, and poll_frame returns
\* whenever it is called; the body's frames and Pending results are finite
LiveSpec ==
    LiveInit /\ [][Next]_vars /\ WF_vars(Poll) /\ WF_vars(Frame)

\* Future::poll is called again after it has returned Ready: Collect keeps no
\* record of having completed, so the loop starts again
PollAgain ==
    /\ status = "done"
    /\ nRepoll < MaxRepoll
    /\ status' = "polling"
    /\ nRepoll' = nRepoll + 1
    /\ UNCHANGED <<S, body, collector, result, sink0, seen, appended,
                   trailersSeen, hooked, nConsume, nEmpty, nPending,
                   exhausted, fault, directAppends, word>>

RepollNext ==
    \/ Poll
    \/ FrameData
    \/ FrameTrailers
    \/ FrameError
    \/ FrameNone
    \/ FramePending
    \/ PollAgain

\* bodies and collectors of the runs that are polled again
RepollInit ==
    /\ Init
    /\ body \in {Take(ZSTD_HEADER, 3) \o <<1, 2>>, Compress(<<1>>)}
    /\ collector \in {VecCollector(<<>>), DecompressNew}

\* a caller that may poll the future again after completion
RepollSpec == RepollInit /\ [][RepollNext]_vars

\* ------------------------------------------- a collector used without Collect
\* the owner holds a collector and the bytes it is going to append
SinkInit ==
    /\ S = 0
    /\ body \in Wires
    /\ collector \in {VecCollector(<<>>), DecompressNew}
    /\ sink0 = collector
    /\ status = "direct"
    /\ result = Continue
    /\ seen = <<>>
    /\ appended = <<>>
    /\ trailersSeen = <<>>
    /\ hooked = <<>>
    /\ nConsume = 0
    /\ nEmpty = 0
    /\ nPending = 0
    /\ exhausted = FALSE
    /\ fault = NoFault
    /\ directAppends = 0
    /\ nRepoll = 0
    /\ word = NoWord

\* the owner calls append; appended restarts after a consume
SinkAppend ==
    /\ status \in {"direct", "consumed"}
    /\ \E n \in 0..Min(MaxChunk, Len(body)) :
        LET data == Take(body, n)
            a == CollectorAppend(collector, data)
        IN  /\ n = 0 => nEmpty < MaxEmpty
            /\ body' = Drop(body, n)
            /\ nEmpty' = IF n = 0 THEN nEmpty + 1 ELSE nEmpty
            /\ collector' = a.c
            /\ appended' = (IF status = "consumed" THEN <<>> ELSE appended) \o data
            /\ fault' = IF a.err # None /\ fault = NoFault
                        THEN [by |-> "append", err |-> a.err] ELSE fault
    /\ status' = "direct"
    /\ directAppends' = directAppends + 1
    /\ UNCHANGED <<S, result, sink0, seen, trailersSeen, hooked, nConsume,
                   nPending, exhausted>>
    /\ UNCHANGED aux

\* the owner calls consume
SinkConsume ==
    /\ status \in {"direct", "consumed"}
    /\ nConsume < MaxConsume
    /\ \E flushOk \in FlushOutcomes(collector) :
        LET r == CollectorConsume(collector, flushOk)
        IN  /\ collector' = r.c
            /\ result' = IF r.ok THEN Ok(r.out) ELSE UnlikelyCollector(r.err)
            /\ fault' = IF r.err # None /\ fault = NoFault
                        THEN [by |-> "consume", err |-> r.err] ELSE fault
    /\ status' = "consumed"
    /\ nConsume' = nConsume + 1
    /\ appended' = IF status = "consumed" THEN <<>> ELSE appended
    /\ UNCHANGED <<S, body, sink0, seen, trailersSeen, hooked, nEmpty,
                   nPending, exhausted, directAppends>>
    /\ UNCHANGED aux

SinkNext ==
    \/ SinkAppend
    \/ SinkConsume

SinkSpec == SinkInit /\ [][SinkNext]_vars

\* ------------------------------------------------------------------ claims

\* C1: with an initially empty Vec<u8> and a body that never fails, the
\* aggregation succeeds exactly when the total size of the data frames is at
\* most S; otherwise it ends with Overflow and consume was never called.
C1_SuccessIffWithinLimit ==
    (status = "done" /\ sink0 = VecCollector(<<>>) /\ fault.by # "body") =>
        /\ result.kind = "Ok" <=> Len(seen) <= S
        /\ Len(seen) > S => result = Overflow /\ nConsume = 0

C1_Witness ==
    /\ status = "done"
    /\ sink0 = VecCollector(<<>>)
    /\ result = Overflow
    /\ appended # <<>>
    /\ Len(seen) > S
    /\ nConsume = 0

\* C2: the bytes poll has passed to append never exceed the limit S in total.
C2_AppendedWithinLimit == Len(appended) <= S

\* C3: after successful appends on a DecompressCollector, len() is the number
\* of bytes passed to append, in each of its three states.
C3_LenIsAbsorbed ==
    (status = "direct" /\ collector.kind = "Decompress" /\ nConsume = 0
        /\ fault = NoFault) =>
        DecompressLen(collector) = Len(appended)

\* C4: with an initially empty Vec<u8>, a successful aggregation returns the
\* concatenation of the data frames in the order the body yielded them.
C4_VecRoundTrip ==
    (status = "done" /\ result.kind = "Ok" /\ sink0 = VecCollector(<<>>)) =>
        result.out = seen

C4_Witness ==
    /\ status = "done"
    /\ sink0 = VecCollector(<<>>)
    /\ result = Ok(<<40, 181, 1, 2>>)
    /\ seen = <<40, 181, 1, 2>>
    /\ nEmpty = 1

\* C5: a zero-length data frame changes nothing: the collector, the returned
\* value and the position of the engine are as if it had not been yielded.
C5_EmptyFrameNoEffect ==
    [][nEmpty' # nEmpty =>
        collector' = collector /\ result' = result /\ status' = status]_vars

\* C6: a trailers frame leaves the collector, its length and the returned
\* value alone and does not end the loop; on_trailers is called once per
\* trailers frame, in the step that handles the frame, so that the hooks are
\* the trailers frames in arrival order.
C6_TrailersOnlyHook ==
    /\ [](hooked = trailersSeen)
    /\ [][trailersSeen' # trailersSeen =>
            /\ \E headers \in HeaderMaps :
                /\ trailersSeen' = Append(trailersSeen, headers)
                /\ hooked' = Append(hooked, headers)
            /\ collector' = collector
            /\ CollectorLen(collector') = CollectorLen(collector)
            /\ appended' = appended
            /\ nConsume' = nConsume
            /\ result' = Continue
            /\ status' = "polling"]_vars

C6_Witness ==
    /\ status = "done"
    /\ result.kind = "Ok"
    /\ hooked = <<"h2", "h1">>
    /\ appended # <<>>
    /\ Len(seen) = S

\* C7: the chunks of Compress(p), however split, appended to a fresh
\* DecompressCollector and consumed give p; the decoder has been written
\* exactly the bytes appended, the prefix buffered while Uninit included.
C7_DecompressRoundTrip ==
    /\ (sink0 = DecompressNew /\ nConsume = 0 /\ fault = NoFault
            /\ collector.state = "Zstd") =>
          collector.decoder.fed = appended
    /\ \A p \in Payloads :
        (sink0 = DecompressNew /\ status = "consumed" /\ nConsume = 1
            /\ appended = Compress(p)) =>
          result = Ok(p) /\ fault = NoFault

C7_Witness ==
    /\ sink0 = DecompressNew
    /\ status = "consumed"
    /\ nConsume = 1
    /\ appended = Compress(<<1, 2>>)
    /\ directAppends = Len(appended)
    /\ result = Ok(<<1, 2>>)

\* C8: bytes that do not start with the magic number, however split, appended
\* to a fresh DecompressCollector and consumed come back unchanged, and no
\* call reports an error.
C8_PlainTransparent ==
    (sink0 = DecompressNew /\ ~StartsWith(appended, ZSTD_HEADER)
        /\ (nConsume = 0 \/ (nConsume = 1 /\ status = "consumed"))) =>
        /\ fault = NoFault
        /\ status = "consumed" => result = Ok(appended)

C8_Witness ==
    /\ sink0 = DecompressNew
    /\ status = "consumed"
    /\ nConsume = 1
    /\ appended = <<40, 181, 47, 1, 2>>
    /\ directAppends = Len(appended) + 1
    /\ result = Ok(appended)

\* C9: the first error ends the aggregation and is what poll returns:
\* Transport with the body's error, Collector with the error of append or
\* consume; after a body or append error consume is not called.
C9_FirstErrorReturned ==
    /\ fault.by = "body" =>
        status = "done" /\ result = Transport(fault.err) /\ nConsume = 0
    /\ fault.by = "append" =>
        status = "done" /\ result = UnlikelyCollector(fault.err) /\ nConsume = 0
    /\ fault.by = "consume" =>
        status = "done" /\ result = UnlikelyCollector(fault.err)
    /\ result.kind \in {"Transport", "Collector"} => fault # NoFault
    /\ fault # NoFault => result.kind \in {"Transport", "Collector"}

C9_Witness ==
    /\ status = "done"
    /\ fault = [by |-> "append", err |-> ErrWrite]
    /\ result = UnlikelyCollector(ErrWrite)
    /\ sink0 = DecompressNew
    /\ appended = ZSTD_HEADER \o <<1, 1, 0>>
    /\ nConsume = 0

\* C10: consume is called once, when the body signals exhaustion: not before,
\* and not again, however often the engine was suspended and resumed.
C10_ConsumeOnceAtExhaustion ==
    /\ nConsume = IF exhausted THEN 1 ELSE 0
    /\ exhausted => status = "done"

C10_Witness ==
    /\ exhausted
    /\ nConsume = 1
    /\ nPending = MaxPending
    /\ appended # <<>>
    /\ status = "done"

\* C11: a body with finitely many frames and Pending results, driven by an
\* executor that polls again after every Pending, lets the engine complete;
\* it completes with one of Ok, Transport, Collector, Overflow, nothing is
\* returned before that, and Ok is returned only at exhaustion.
C11_CompletesWithOneResult ==
    /\ <>(status = "done")
    /\ [](status = "done" =>
            result.kind \in {"Ok", "Transport", "Collector", "Overflow"})
    /\ [](status # "done" => result = Continue)
    /\ [](result.kind = "Ok" => exhausted /\ nConsume = 1)

C11_Witness ==
    /\ status = "done"
    /\ nPending = MaxPending
    /\ result = Ok(<<1, 2>>)
    /\ seen = Compress(<<1, 2>>)
    /\ Len(hooked) = 1

\* C12: when the collector's len() plus the length of a data frame exceeds S,
\* poll returns Overflow without calling append for the frame: the collector,
\* its length and the bytes appended are what they were before the frame;
\* and whenever Overflow is returned the collector is untouched by that step.
C12_CheckBeforeAppend ==
    /\ [][(status = "polling" /\ (seen' # seen \/ nEmpty' # nEmpty)
            /\ CollectorLen(collector) + (Len(seen') - Len(seen)) > S) =>
            /\ result' = Overflow
            /\ collector' = collector
            /\ CollectorLen(collector') = CollectorLen(collector)
            /\ appended' = appended]_vars
    /\ [][(result' = Overflow /\ result # Overflow) =>
            /\ CollectorLen(collector) + (Len(seen') - Len(seen)) > S
            /\ collector' = collector
            /\ appended' = appended]_vars

C12_Witness ==
    /\ status = "done"
    /\ result = Overflow
    /\ sink0 = DecompressNew
    /\ collector = Uninit(appended)
    /\ Len(appended) = 3
    /\ Len(seen) = 5

\* C13 as stated: once poll has returned Overflow, no later poll takes a frame
\* from the body, calls append, on_trailers or consume, or returns Ok.
C13_OverflowTerminal ==
    [][result = Overflow =>
        /\ body' = body
        /\ seen' = seen
        /\ collector' = collector
        /\ appended' = appended
        /\ hooked' = hooked
        /\ nConsume' = nConsume
        /\ result'.kind # "Ok"]_vars

\* C13 as amended: Overflow ends the call of poll that reports it, and the
\* engine then does nothing unless poll is called again, which is the only
\* step a completed engine can take.
C13_OverflowEndsPoll ==
    /\ [][(result' = Overflow /\ result # Overflow) => status' = "done"]_vars
    /\ [][(status = "done" /\ result = Overflow) =>
            /\ status' = "polling"
            /\ nRepoll' = nRepoll + 1
            /\ UNCHANGED <<body, seen, collector, appended, hooked, nConsume,
                           result>>]_vars
    /\ []((result = Overflow /\ nRepoll = 0) => status = "done")

C13_Witness ==
    /\ nRepoll = 1
    /\ status = "done"
    /\ result.kind = "Ok"
    /\ Len(seen) > Len(appended)
    /\ appended # <<>>
    /\ sink0 = VecCollector(<<>>)

\* C14: poll returns Pending exactly when the body is not ready; a Pending
\* and the poll that follows it change nothing but the engine's position, so
\* the sink calls and the result are those of the run without them; every
\* byte the body yielded was appended once, in order, except the frame an
\* Overflow rejected, and every trailers frame was hooked once.
C14_SuspensionTransparent ==
    /\ [][nPending' # nPending =>
            /\ status' = "suspended"
            /\ UNCHANGED <<body, seen, collector, appended, trailersSeen,
                           hooked, nConsume, nEmpty, result, fault>>]_vars
    /\ [][status' = "suspended" => nPending' = nPending + 1]_vars
    /\ [][status = "suspended" =>
            /\ status' = "polling"
            /\ UNCHANGED <<body, seen, collector, appended, trailersSeen,
                           hooked, nConsume, nEmpty, nPending, result,
                           fault>>]_vars
    /\ [](IF result = Overflow
          THEN StartsWith(seen, appended)
          ELSE appended = seen)
    /\ [](sink0.kind = "Vec" /\ nConsume = 0 =>
            collector.buffer = sink0.buffer \o appended)
    /\ [](Len(hooked) = Len(trailersSeen))

C14_Witness ==
    /\ status = "done"
    /\ nPending = MaxPending
    /\ sink0 = VecCollector(<<7>>)
    /\ result = Ok(<<7>> \o seen)
    /\ Len(seen) = 4
    /\ Len(trailersSeen) = 1

\* C15: after any appends, failed ones included, a DecompressCollector is in
\* Uninit only while fewer than 4 bytes have been absorbed, and once it is in
\* Plain or Zstd no append changes the variant.
C15_UninitOnlyBelowHeader ==
    /\ []((sink0 = DecompressNew /\ nConsume = 0 /\ collector.state = "Uninit")
            => Len(appended) < Len(ZSTD_HEADER))
    /\ [][(sink0 = DecompressNew /\ nConsume' = nConsume
             /\ collector.state \in {"Plain", "Zstd"})
            => collector'.state = collector.state]_vars

\* C16: on a zero-length data frame poll never calls append and never
\* returns: whatever the collector's length and the limit, the loop goes on
\* with the next frame.
C16_EmptyFrameSkipped ==
    /\ [](status = "polling" => ~PollData(S, collector, <<>>).called)
    /\ [][nEmpty' = nEmpty + 1 =>
            /\ status' = "polling"
            /\ result'.kind \notin {"Overflow", "Collector"}
            /\ appended' = appended]_vars

\* C17: consume hands out the contents and resets the collector: a Vec<u8>
\* returns its whole buffer and is left empty, a DecompressCollector is left
\* in Uninit with an empty buffer whatever its state was, and a consume that
\* directly follows a consume returns an empty output without error.
C17_ConsumeResets ==
    [][nConsume' = nConsume + 1 =>
        /\ collector' = IF collector.kind = "Vec" THEN VecCollector(<<>>)
                        ELSE DecompressNew
        /\ CollectorLen(collector') = 0
        /\ collector.kind = "Vec" => result' = Ok(collector.buffer)
        /\ status = "consumed" => result' = Ok(<<>>)]_vars

C17_Witness ==
    /\ status = "consumed"
    /\ nConsume = 2
    /\ sink0 = VecCollector(<<>>)
    /\ collector = VecCollector(<<>>)
    /\ result = Ok(<<>>)
    /\ appended = <<>>
    /\ nEmpty = 0
    /\ directAppends = 2

\* C18 as stated: a successful aggregation that started with an empty
\* collector returns at most S bytes, for Vec<u8> and DecompressCollector.
C18_OutputWithinLimit ==
    (status = "done" /\ result.kind = "Ok"
        /\ sink0 \in {VecCollector(<<>>), DecompressNew}) =>
        Len(result.out) <= S

\* C18 as amended: the output is at most S bytes for Vec<u8>, and for a
\* DecompressCollector whose input does not start with the magic number.
C18_PlainOutputWithinLimit ==
    (status = "done" /\ result.kind = "Ok"
        /\ \/ sink0 = VecCollector(<<>>)
           \/ sink0 = DecompressNew /\ ~StartsWith(seen, ZSTD_HEADER)) =>
        Len(result.out) <= S

C18_Witness ==
    /\ status = "done"
    /\ sink0 = DecompressNew
    /\ S = 5
    /\ seen = Take(ZSTD_HEADER, 3) \o <<2, 1>>
    /\ result = Ok(seen)
    /\ nEmpty = 1

\* ---- the limit check alone, over every word value ----

\* word.n stands for collector.len() and word.m for data.len(); the
\* Collector trait is public, so len() can return any usize.
ArithInit ==
    /\ S \in 0 .. UsizeMax
    /\ word \in [n : 0 .. UsizeMax, m : 0 .. UsizeMax, out : {None}]
    /\ body = <<>>
    /\ collector = VecCollector(<<>>)
    /\ sink0 = collector
    /\ status = "arith"
    /\ result = Continue
    /\ seen = <<>>
    /\ appended = <<>>
    /\ trailersSeen = <<>>
    /\ hooked = <<>>
    /\ nConsume = 0
    /\ nEmpty = 0
    /\ nPending = 0
    /\ exhausted = FALSE
    /\ fault = NoFault
    /\ directAppends = 0
    /\ nRepoll = 0

\* S.checked_sub(len.saturating_add(data.len())) is None => Overflow
LimitCheck ==
    /\ status = "arith"
    /\ word.out = None
    /\ word' = [word EXCEPT !.out =
                    IF CheckedSub(S, SaturatingAdd(word.n, word.m)) = <<>>
                    THEN "Overflow" ELSE "Pass"]
    /\ UNCHANGED <<S, body, collector, status, result, sink0, seen, appended,
                   trailersSeen, hooked, nConsume, nEmpty, nPending,
                   exhausted, fault, directAppends, nRepoll>>

ArithNext == LimitCheck

ArithSpec == ArithInit /\ [][ArithNext]_vars

\* C19 as stated: for every word value of S, n and m the check reports
\* Overflow exactly when n + m > S in unbounded arithmetic.
C19_OverflowExact ==
    (status = "arith" /\ word.out # None) =>
        (word.out = "Overflow" <=> word.n + word.m > S)

\* C19 as amended: the check reports Overflow exactly when n + m > S and S
\* is below the maximum word value; with S at the maximum it never does.
C19_OverflowExactBelowMax ==
    (status = "arith" /\ word.out # None) =>
        (word.out = "Overflow" <=> (word.n + word.m > S /\ S < UsizeMax))

C19_Witness ==
    /\ status = "arith"
    /\ word.out = "Overflow"
    /\ word.n + word.m > UsizeMax
    /\ word.n = UsizeMax
    /\ S = UsizeMax - 1

====
